---------------------------- MODULE Spec2Model ----------------------------
(***************************************************************************)
(* Model of server.js: the POST /api/generate-playlist handler, the tag    *)
(* inference call (getTagsFromGemini), the Last.fm lookups, normaliseTrack, *)
(* clean and buildPlaylist.                                                 *)
(*                                                                          *)
(* One request is followed from arrival to its response.  Text is a        *)
(* sequence of characters (one-character strings; a few fixed words such   *)
(* as "Unknown" are kept as one chunk), so that key building and           *)
(* lower-casing are computed, not assumed.                                 *)
(***************************************************************************)
EXTENDS Integers, Sequences, FiniteSets

VARIABLES
    pc,         \* position of the request handler
    userInput,  \* req.body, held until the prompt is built from it
    family,     \* environment: which bounded input family this request is drawn from
    okLeft,     \* environment: lookups the music service will still answer
    tags,       \* value returned by getTagsFromGemini
    calls,      \* per lookup group, the lookups issued: [tag, status]
    allTracks,  \* buildPlaylist's allTracks
    unique,     \* buildPlaylist's unique (clean's result)
    res,        \* the HTTP response sent, or NoResponse
    err,        \* the error the handler's catch block received, or NoError
    geminiCalls \* number of generateContentStream calls made

vars == <<pc, userInput, family, okLeft, tags, calls, allTracks, unique, res, err, geminiCalls>>

---------------------------------------------------------------------------
(* Bounds of the model *)

\* longest tag array of the short input family
MaxTags == 2
\* lookups the music service answers (fulfils) in one request
MaxOk == 2
\* how many earlier pending lookups of its group a response may overtake, plus one
Window == 2
\* largest index of the permutations the shuffle is drawn from
MaxShuffle == 1

(* Program constants *)
CulturalCap == 8
ArtistCap == 20
EraCap == 2
PlaylistCap == 25

---------------------------------------------------------------------------
(* JavaScript values *)

Undefined == "<undefined>"
Null == "<null>"
EmptyString == ""

\* JavaScript truthiness of an atomic value of the model
Truthy(v) == v \notin {Undefined, Null, EmptyString}

\* a || b on atomic values
OrElse(a, b) == IF Truthy(a) THEN a ELSE b

Min(a, b) == IF a <= b THEN a ELSE b

\* Array.prototype.slice(0, n)
SliceTo(s, n) == SubSeq(s, 1, Min(Len(s), n))

---------------------------------------------------------------------------
(* Text: sequences of characters *)

Letters == <<"a", "b", "c", "d", "e", "f", "g", "h", "i", "j", "k", "l", "m",
             "n", "o", "p", "q", "r", "s", "t", "u", "v", "w", "x", "y", "z">>

Capitals == <<"A", "B", "C", "D", "E", "F", "G", "H", "I", "J", "K", "L", "M",
              "N", "O", "P", "Q", "R", "S", "T", "U", "V", "W", "X", "Y", "Z">>

\* the lower-case form of each capital and of the chunks written with capitals
UpperToLower ==
    [c \in {Capitals[k] : k \in 1..Len(Capitals)} \cup {"Unknown", "[object Object]"} |->
        IF c = "Unknown" THEN "unknown"
        ELSE IF c = "[object Object]" THEN "[object object]"
        ELSE Letters[CHOOSE k \in 1..Len(Capitals) : Capitals[k] = c]]

LowerChar(c) == IF c \in DOMAIN UpperToLower THEN UpperToLower[c] ELSE c

\* String.prototype.toLowerCase
ToLowerCase(s) == [i \in 1..Len(s) |-> LowerChar(s[i])]

Unknown == <<"Unknown">>
ObjectText == <<"[object Object]">>
KeySeparator == <<"|", "|", "|">>

---------------------------------------------------------------------------
(* Raw Last.fm track records and the pages the service can answer with *)

NoArtist == [kind |-> "none", name |-> <<>>]
ArtistString(s) == [kind |-> "string", name |-> s]
ArtistObject(s) == [kind |-> "object", name |-> s]

Image(size, text) == [size |-> size, text |-> text]

RawTrack(name, artist, url, image) ==
    [name |-> name, artist |-> artist, url |-> url, image |-> image]

\* 26 different tracks of one artist, as tag.gettoptracks answers (artist objects)
BigPage == [k \in 1..Len(Letters) |->
               RawTrack(<<Letters[k]>>, ArtistObject(<<"x">>), "http://t",
                        <<Image("small", "s.png"), Image("medium", "m.png")>>)]

\* tracks that differ from BigPage's, or from one another, by case only; a
\* record without artist; records whose artist or name holds the bar character
SmallPage ==
    << RawTrack(<<"A">>, ArtistString(<<"X">>), Undefined,
                <<Image("medium", EmptyString), Image("large", "l.png")>>),
       RawTrack(<<"b">>, NoArtist, EmptyString, <<>>),
       RawTrack(<<"B">>, ArtistString(<<"unknown">>), "http://u", <<Image("small", "s.png")>>),
       RawTrack(<<"c">>, ArtistObject(<<"y", "|">>), "http://t", <<>>),
       RawTrack(<<"|", "c">>, ArtistObject(<<"y">>), "http://t", <<>>),
       RawTrack(<<"C">>, ArtistString(<<"Y", "|">>), "http://t", <<>>),
       RawTrack(<<"a">>, ArtistObject(<<"x">>), "http://t", <<>>) >>

\* what a fulfilled lookup can hold: data?.tracks?.track || []
Pages == {<<>>, BigPage, SmallPage}

---------------------------------------------------------------------------
(* normaliseTrack and clean *)

\* track.image?.find((i) => i.size === size)?.["#text"]
RECURSIVE ImageText(_, _)
ImageText(image, size) ==
    IF image = <<>> THEN Undefined
    ELSE IF Head(image).size = size THEN Head(image).text
    ELSE ImageText(Tail(image), size)

\* track.artist?.name || track.artist || "Unknown"; an artist object without a
\* name is kept as it is, and held here as the text a template literal gives it
NormalisedArtist(artist) ==
    IF artist.kind = "object" /\ artist.name # <<>> THEN artist.name
    ELSE IF artist.kind = "object" THEN ObjectText
    ELSE IF artist.kind = "string" /\ artist.name # <<>> THEN artist.name
    ELSE Unknown

normaliseTrack(track, source) ==
    [name   |-> track.name,
     artist |-> NormalisedArtist(track.artist),
     url    |-> OrElse(track.url, Null),
     image  |-> OrElse(ImageText(track.image, "medium"),
                       OrElse(ImageText(track.image, "large"), Null)),
     source |-> source]

\* a key built without lower-casing
KeyCaseSensitive(t) == t.artist \o KeySeparator \o t.name

\* `${t.artist}|||${t.name}`.toLowerCase()
Key(t) == ToLowerCase(t.artist \o KeySeparator \o t.name)

\* tracks.filter with the seen set: keep a track unless its key was seen
RECURSIVE CleanFrom(_, _)
CleanFrom(tracks, seen) ==
    IF tracks = <<>> THEN <<>>
    ELSE IF Key(Head(tracks)) \in seen THEN CleanFrom(Tail(tracks), seen)
    ELSE <<Head(tracks)>> \o CleanFrom(Tail(tracks), seen \cup {Key(Head(tracks))})

\* a filter that keeps the last track of each key instead of the first
RECURSIVE CleanKeepLast(_)
CleanKeepLast(tracks) ==
    IF tracks = <<>> THEN <<>>
    ELSE IF \E k \in 2..Len(tracks) : Key(tracks[k]) = Key(Head(tracks))
         THEN CleanKeepLast(Tail(tracks))
         ELSE <<Head(tracks)>> \o CleanKeepLast(Tail(tracks))

clean(tracks) == CleanFrom(tracks, {})

---------------------------------------------------------------------------
(* The request body and its validation *)

FieldValues == {Undefined, EmptyString, "given"}

Bodies == [birth_year : FieldValues, hometown : FieldValues, language : FieldValues]

\* the body once the prompt has been built from it; it is not read again
NoInput == [birth_year |-> Null, hometown |-> Null, language |-> Null]

\* a validation that forgets the language field
HasIdentityTwo(input) == Truthy(input.birth_year) \/ Truthy(input.hometown)

\* the negation of !userInput.birth_year && !userInput.hometown && !userInput.language
HasIdentity(input) ==
    Truthy(input.birth_year) \/ Truthy(input.hometown) \/ Truthy(input.language)

---------------------------------------------------------------------------
(* Responses *)

NoTags == [kind |-> "none"]
NullJson == [kind |-> "null"]

NoResponse == [status |-> 0, error |-> EmptyString, tags |-> NoTags, playlist |-> <<>>]

ValidationText == "Please provide at least birth year, hometown, or language."
FallbackText == "Something went wrong."

BadRequest == [status |-> 400, error |-> ValidationText, tags |-> NoTags, playlist |-> <<>>]

NoError == [kind |-> "none", message |-> EmptyString]
Error(kind, message) == [kind |-> kind, message |-> message]

\* a handler that answers every failure with the fixed text
ErrorTextGeneric(message) == FallbackText

\* err.message || "Something went wrong."
ErrorText(message) == OrElse(message, FallbackText)

ServerError(message) ==
    [status |-> 500, error |-> ErrorText(message), tags |-> NoTags, playlist |-> <<>>]

\* a handler that answers with the playlist alone
SuccessWithoutTags(t, playlist) ==
    [status |-> 200, error |-> EmptyString, tags |-> NoTags, playlist |-> playlist]

\* res.json({ tags, playlist })
Success(t, playlist) ==
    [status |-> 200, error |-> EmptyString, tags |-> t, playlist |-> playlist]

\* messages of the errors the generative service call can fail with
UpstreamMessages == {"quota exceeded", EmptyString, Undefined}
SyntaxErrorMessage == "Unexpected token in JSON"
TypeErrorMessage == "Cannot read properties of null"

---------------------------------------------------------------------------
(* Tag sets the model's output can parse to *)

Absent == [defined |-> FALSE, items |-> <<>>]
Array(items) == [defined |-> TRUE, items |-> items]

\* tags.field || []
OrEmpty(field) == IF field.defined THEN field.items ELSE <<>>

TagName(prefix, i) == <<prefix, i>>
TagArray(prefix, n) == [i \in 1..n |-> TagName(prefix, i)]

TagSet(era, cultural, artists) ==
    [kind |-> "object", eraTags |-> era, culturalTags |-> cultural,
     artists |-> artists, countryISO |-> "Nigeria"]

ShortFields(prefix) == {Absent} \cup {Array(TagArray(prefix, n)) : n \in 0..MaxTags}

ShortTagSets ==
    {TagSet(e, c, a) : e \in ShortFields("decade"), c \in ShortFields("style"),
                       a \in ShortFields("band")}

LongTagSets ==
    {TagSet(Array(TagArray("decade", e)), Array(TagArray("style", c)),
            Array(TagArray("band", a))) :
        e \in {EraCap, EraCap + 1}, c \in {CulturalCap, CulturalCap + 1},
        a \in {ArtistCap, ArtistCap + 1}}

JsonValues(fam) == IF fam = "long" THEN LongTagSets ELSE ShortTagSets \cup {NullJson}

---------------------------------------------------------------------------
(* The streamed model output: fence stripping and JSON.parse *)

Token(t, v) == [t |-> t, v |-> v]
Fence == Token("fence", NoTags)
Lang == Token("letters", NoTags)
Newline == Token("newline", NoTags)
Space == Token("space", NoTags)
Garbage == Token("garbage", NoTags)
Json(v) == Token("json", v)

\* a token the class [a-z] matches throughout: a language tag, or the literal null
IsLetters(tok) == tok.t = "letters" \/ (tok.t = "json" /\ tok.v.kind = "null")
IsSpace(tok) == tok.t \in {"newline", "space"}

RECURSIVE DropLetters(_)
DropLetters(s) ==
    IF s # <<>> /\ IsLetters(Head(s)) THEN DropLetters(Tail(s)) ELSE s

DropNewline(s) == IF s # <<>> /\ Head(s).t = "newline" THEN Tail(s) ELSE s

\* raw.replace(/^```[a-z]*\n?/i, "")
StripOpen(s) ==
    IF s # <<>> /\ Head(s).t = "fence" THEN DropNewline(DropLetters(Tail(s))) ELSE s

\* .replace(/```$/, "")
StripClose(s) ==
    IF s # <<>> /\ s[Len(s)].t = "fence" THEN SubSeq(s, 1, Len(s) - 1) ELSE s

RECURSIVE TrimLeft(_)
TrimLeft(s) == IF s # <<>> /\ IsSpace(Head(s)) THEN TrimLeft(Tail(s)) ELSE s

RECURSIVE TrimRight(_)
TrimRight(s) ==
    IF s # <<>> /\ IsSpace(s[Len(s)]) THEN TrimRight(SubSeq(s, 1, Len(s) - 1)) ELSE s

\* .trim()
Trim(s) == TrimRight(TrimLeft(s))

StripFences(s) == Trim(StripClose(StripOpen(s)))

\* JSON.parse succeeds on one JSON value
Parses(s) == Len(s) = 1 /\ s[1].t = "json"
Parsed(s) == s[1].v

\* for await (const chunk of stream) raw += chunk.text ?? ""
Chunk(text) == [hasText |-> TRUE, text |-> text]
EmptyChunk == [hasText |-> FALSE, text |-> <<>>]

RECURSIVE Collect(_)
Collect(stream) ==
    IF stream = <<>> THEN <<>>
    ELSE (IF Head(stream).hasText THEN Head(stream).text ELSE <<>>) \o Collect(Tail(stream))

\* the shapes of output the generative service answers with
Texts(v) ==
    { <<Json(v)>>,
      <<Fence, Lang, Newline, Json(v), Newline, Fence>>,
      <<Fence, Json(v), Fence>>,
      <<Fence, Lang, Newline, Json(v), Newline, Fence, Newline>>,
      <<Space, Fence, Lang, Newline, Json(v), Newline, Fence>>,
      <<Newline, Json(v), Space>>,
      <<Json(v), Garbage>>,
      <<Garbage>>,
      <<>> }

Streams(fam) ==
    UNION { { <<Chunk(t)>>, <<EmptyChunk, Chunk(t)>>,
              <<Chunk(SubSeq(t, 1, Len(t) \div 2)), Chunk(SubSeq(t, Len(t) \div 2 + 1, Len(t)))>> }
            : t \in UNION {Texts(v) : v \in JsonValues(fam)} }

---------------------------------------------------------------------------
(* buildPlaylist: the lookup groups *)

GroupSet == {"genre", "artist", "era"}

NoCalls == [g \in GroupSet |-> <<>>]

\* the tags one group looks up: (tags.field || []).slice(0, cap)
GenreTags(t) == SliceTo(OrEmpty(t.culturalTags), CulturalCap)
ArtistTags(t) == SliceTo(OrEmpty(t.artists), ArtistCap)
EraTags(t) == SliceTo(OrEmpty(t.eraTags), EraCap)

GroupTags(t, g) ==
    CASE g = "genre" -> GenreTags(t)
      [] g = "artist" -> ArtistTags(t)
      [] g = "era" -> EraTags(t)

\* .map(async (tag) => ...): every lookup of the group is started, none awaited yet
Issued(tagList) == [i \in 1..Len(tagList) |-> [tag |-> tagList[i], status |-> "pending"]]

\* `genre:${tag}`, `artist:${artist}`, `era:${decade}`
Source(g, tag) == [kind |-> g, tag |-> tag]

\* a callback that pushes the first track of the answer only
PushedOne(all, page, source) ==
    all \o [k \in 1..Min(Len(page), 1) |-> normaliseTrack(page[k], source)]

\* tracks.forEach((t) => allTracks.push(normaliseTrack(t, source)))
Pushed(all, page, source) ==
    all \o [k \in 1..Len(page) |-> normaliseTrack(page[k], source)]

\* a wait that ends only when every promise was fulfilled
GroupFulfilled(group) == \A i \in 1..Len(group) : group[i].status = "ok"

\* a wait that ends with the first promise to settle
GroupSettledAny(group) ==
    group = <<>> \/ \E i \in 1..Len(group) : group[i].status # "pending"

\* Promise.allSettled resolves once no promise of the group is pending
GroupSettled(group) == \A i \in 1..Len(group) : group[i].status # "pending"

\* the network may deliver a response ahead of fewer than Window earlier ones
MayArrive(group, i) ==
    /\ group[i].status = "pending"
    /\ Cardinality({j \in 1..(i - 1) : group[j].status = "pending"}) < Window

---------------------------------------------------------------------------
(* The shuffle: unique.sort(() => Math.random() - 0.5) *)

Reverse(s) == [i \in 1..Len(s) |-> s[Len(s) + 1 - i]]

Rotate(s, k) ==
    IF s = <<>> THEN s
    ELSE [i \in 1..Len(s) |-> s[((i - 1 + k) % Len(s)) + 1]]

\* the permutations the random comparator is taken to produce: the k-th one
\* rotates by k places, and reverses when k is odd
Shuffled(s, k) == IF k % 2 = 1 THEN Reverse(Rotate(s, k)) ELSE Rotate(s, k)

\* a cap that lets one track too many through
CappedOffByOne(s) == SliceTo(s, PlaylistCap + 1)

\* .slice(0, 25)
Capped(s) == SliceTo(s, PlaylistCap)

---------------------------------------------------------------------------
(* The state machine *)

\* A request arrives with any body.  Its environment is one of two families:
\* "short", where the model output holds arrays of at most MaxTags tags (or is
\* null) and the music service answers up to MaxOk lookups; "long", where the
\* arrays are as long as buildPlaylist's limits or one longer and the music
\* service is unreachable.
Init ==
    /\ pc = "received"
    /\ userInput \in Bodies
    /\ family \in {"short", "long"}
    /\ okLeft = IF family = "short" THEN MaxOk ELSE 0
    /\ tags = NoTags
    /\ calls = NoCalls
    /\ allTracks = <<>>
    /\ unique = <<>>
    /\ res = NoResponse
    /\ err = NoError
    /\ geminiCalls = 0

\* lines 182-186: no identity field given
RejectRequest ==
    /\ pc = "received"
    /\ ~HasIdentity(userInput)
    /\ res' = BadRequest
    /\ pc' = "done"
    /\ UNCHANGED <<userInput, family, okLeft, tags, calls, allTracks, unique, err, geminiCalls>>

\* lines 188-189, 57-69: the prompt is built and the generative service called
CallGemini ==
    /\ pc = "received"
    /\ HasIdentity(userInput)
    /\ geminiCalls' = geminiCalls + 1
    /\ userInput' = NoInput
    /\ pc' = "awaitTags"
    /\ UNCHANGED <<family, okLeft, tags, calls, allTracks, unique, res, err>>

\* generateContentStream, or reading the stream, fails; the handler's catch answers
GeminiFails ==
    /\ pc = "awaitTags"
    /\ \E message \in UpstreamMessages :
          /\ err' = Error("UpstreamError", message)
          /\ res' = ServerError(message)
    /\ pc' = "done"
    /\ UNCHANGED <<userInput, family, okLeft, tags, calls, allTracks, unique, geminiCalls>>

\* lines 71-78: the chunks are collected, stripped and parsed
GeminiAnswers ==
    /\ pc = "awaitTags"
    /\ \E stream \in Streams(family) :
          LET raw == StripFences(Collect(stream)) IN
          IF Parses(raw)
          THEN /\ tags' = Parsed(raw)
               /\ pc' = "haveTags"
               /\ UNCHANGED <<res, err>>
          ELSE /\ err' = Error("SyntaxError", SyntaxErrorMessage)
               /\ res' = ServerError(SyntaxErrorMessage)
               /\ pc' = "done"
               /\ tags' = tags
    /\ UNCHANGED <<userInput, family, okLeft, calls, allTracks, unique, geminiCalls>>

\* lines 193, 139-148: buildPlaylist starts; reading a field of null throws
StartPlaylist ==
    /\ pc = "haveTags"
    /\ IF tags.kind = "object"
       THEN /\ allTracks' = <<>>
            /\ calls' = [calls EXCEPT !["genre"] = Issued(GenreTags(tags))]
            /\ pc' = "genre"
            /\ UNCHANGED <<res, err>>
       ELSE /\ err' = Error("TypeError", TypeErrorMessage)
            /\ res' = ServerError(TypeErrorMessage)
            /\ pc' = "done"
            /\ UNCHANGED <<allTracks, calls>>
    /\ UNCHANGED <<userInput, family, okLeft, tags, unique, geminiCalls>>

\* a lookup of the awaited group is answered and its tracks are pushed
LookupFulfilled ==
    /\ pc \in {"genre", "artist", "era"}
    /\ okLeft > 0
    /\ \E i \in 1..Len(calls[pc]) : \E page \in Pages :
          /\ MayArrive(calls[pc], i)
          /\ calls' = [calls EXCEPT ![pc][i].status = "ok"]
          /\ allTracks' = Pushed(allTracks, page, Source(pc, calls[pc][i].tag))
    /\ okLeft' = okLeft - 1
    /\ UNCHANGED <<pc, userInput, family, tags, unique, res, err, geminiCalls>>

\* a lookup of the awaited group fails (fetch or res.json rejects)
LookupRejected ==
    /\ pc \in {"genre", "artist", "era"}
    /\ \E i \in 1..Len(calls[pc]) :
          /\ MayArrive(calls[pc], i)
          /\ calls' = [calls EXCEPT ![pc][i].status = "failed"]
    /\ UNCHANGED <<pc, userInput, family, okLeft, tags, allTracks, unique, res, err, geminiCalls>>

\* lines 143-158: the genre group has settled, the artist lookups are started
StartArtists ==
    /\ pc = "genre"
    /\ GroupSettled(calls["genre"])
    /\ calls' = [calls EXCEPT !["artist"] = Issued(ArtistTags(tags))]
    /\ pc' = "artist"
    /\ UNCHANGED <<userInput, family, okLeft, tags, allTracks, unique, res, err, geminiCalls>>

\* lines 151-168: the artist group has settled, the era lookups are started
StartEras ==
    /\ pc = "artist"
    /\ GroupSettled(calls["artist"])
    /\ calls' = [calls EXCEPT !["era"] = Issued(EraTags(tags))]
    /\ pc' = "era"
    /\ UNCHANGED <<userInput, family, okLeft, tags, allTracks, unique, res, err, geminiCalls>>

\* lines 161-170: the era group has settled, the merged tracks are deduplicated
Dedupe ==
    /\ pc = "era"
    /\ GroupSettled(calls["era"])
    /\ unique' = clean(allTracks)
    /\ pc' = "shuffle"
    /\ UNCHANGED <<userInput, family, okLeft, tags, calls, allTracks, res, err, geminiCalls>>

\* lines 173-174, 194-196: sort in place, slice, answer
Respond ==
    /\ pc = "shuffle"
    /\ \E k \in 0..MaxShuffle :
          /\ unique' = Shuffled(unique, k)
          /\ res' = Success(tags, Capped(unique'))
    /\ pc' = "done"
    /\ UNCHANGED <<userInput, family, okLeft, tags, calls, allTracks, err, geminiCalls>>

Next ==
    \/ RejectRequest
    \/ CallGemini
    \/ GeminiFails
    \/ GeminiAnswers
    \/ StartPlaylist
    \/ LookupFulfilled
    \/ LookupRejected
    \/ StartArtists
    \/ StartEras
    \/ Dedupe
    \/ Respond

Spec == Init /\ [][Next]_vars

---------------------------------------------------------------------------
(* Vocabulary of the properties *)

Range(s) == {s[i] : i \in 1..Len(s)}

\* the (artist, name) pair of a track, each part lower-cased on its own
LowerPair(t) == <<ToLowerCase(t.artist), ToLowerCase(t.name)>>

SamePair(a, b) == LowerPair(a) = LowerPair(b)

\* some two positions of s hold tracks of the same pair
HasDuplicatePair(s) == Cardinality({LowerPair(s[i]) : i \in 1..Len(s)}) < Len(s)

\* the tracks of s that no earlier track of s equals in artist and name, case ignored
FirstOccurrences(s) ==
    LET keep == {i \in 1..Len(s) : \A j \in 1..(i - 1) : ~SamePair(s[j], s[i])}
        F[i \in 0..Len(s)] ==
            IF i = 0 THEN <<>>
            ELSE IF i \in keep THEN Append(F[i - 1], s[i]) ELSE F[i - 1]
    IN F[Len(s)]

\* the pairs the lookups of one group contributed to the merged collection
PairsOf(kind) ==
    {LowerPair(allTracks[i]) : i \in {j \in 1..Len(allTracks) : allTracks[j].source.kind = kind}}

AllSettled(g) == \A i \in 1..Len(calls[g]) : calls[g][i].status \in {"ok", "failed"}

SomeLookup == \E g \in GroupSet : calls[g] # <<>>

EveryLookupFailed == \A g \in GroupSet : \A i \in 1..Len(calls[g]) : calls[g][i].status = "failed"

\* the array a group reads from the tag set
TagField(g) ==
    CASE g = "genre" -> tags.culturalTags
      [] g = "artist" -> tags.artists
      [] g = "era" -> tags.eraTags

GroupLimit(g) == CASE g = "genre" -> 8 [] g = "artist" -> 20 [] g = "era" -> 2

\* the number of lookups group g is due: its array's length, at most its limit
Due(g) ==
    IF ~TagField(g).defined THEN 0
    ELSE IF Len(TagField(g).items) <= GroupLimit(g) THEN Len(TagField(g).items)
    ELSE GroupLimit(g)

---------------------------------------------------------------------------
(* C1: the playlist of a success response holds no two tracks whose artist *)
(* and name are both equal after lower-casing.                             *)
PlaylistHasNoDuplicatePair ==
    res.status = 200 => ~HasDuplicatePair(res.playlist)

\* a success response whose lookups had gathered such a pair twice
DuplicatesWereGathered ==
    /\ res.status = 200
    /\ HasDuplicatePair(allTracks)
    /\ res.playlist # <<>>

(* C2: clean returns exactly the first occurrence of each case-insensitive *)
(* (artist, name) pair, in input order; tracks that differ in artist or in *)
(* name are never merged.                                                  *)
CleanKeepsExactlyFirstOccurrences ==
    pc = "shuffle" => unique = FirstOccurrences(allTracks)

(* C3: the playlist has at most 25 entries, at most as many as the         *)
(* deduplicated collection, and each entry is in that collection.          *)
PlaylistWithinBounds ==
    res.status = 200 =>
        LET deduplicated == clean(allTracks) IN
        /\ Len(res.playlist) <= 25
        /\ Len(res.playlist) <= Len(deduplicated)
        /\ Range(res.playlist) \subseteq Range(deduplicated)

\* more than 25 unique tracks were gathered, so the cap cut some
PlaylistWasCut ==
    /\ res.status = 200
    /\ Len(clean(allTracks)) > 25
    /\ Len(res.playlist) = 25

\* buildPlaylist does not fail once lookups are out; when the lookups of the
\* awaited group have each succeeded or failed, its wait for the group is over;
\* and by its end every lookup due has been issued, for the tag due, and has settled
BuildPlaylistSurvivesFailures ==
    /\ SomeLookup => res.status # 500 /\ err = NoError
    /\ \A g \in GroupSet : (pc = g /\ AllSettled(g)) => GroupSettled(calls[g])
    /\ (pc = "done" /\ tags.kind = "object") =>
          /\ res.status = 200
          /\ \A g \in GroupSet :
                /\ Len(calls[g]) = Due(g)
                /\ AllSettled(g)
                /\ \A i \in 1..Len(calls[g]) : calls[g][i].tag = TagField(g).items[i]

\* a step that settles one lookup leaves every other lookup as it was; a failure
\* leaves the merged tracks as they were, a success appends its whole answer
LookupStepIsIsolated ==
    \A g \in GroupSet : \A i \in 1..Len(calls[g]) :
        (calls[g][i].status = "pending" /\ Len(calls'[g]) = Len(calls[g])
            /\ calls'[g][i].status # "pending") =>
        /\ \A h \in GroupSet \ {g} : calls'[h] = calls[h]
        /\ \A j \in 1..Len(calls[g]) : j # i => calls'[g][j] = calls[g][j]
        /\ calls'[g][i].status = "failed" => allTracks' = allTracks
        /\ calls'[g][i].status = "ok" =>
              \E page \in Pages :
                 allTracks' = allTracks \o
                    [k \in 1..Len(page) |->
                        normaliseTrack(page[k], [kind |-> g, tag |-> calls[g][i].tag])]

(* C4: whatever lookups fail, buildPlaylist does not fail; every lookup    *)
(* due is issued and settles, a failed one changing neither its siblings   *)
(* nor the merged tracks; a lookup that succeeds appends all the tracks of  *)
(* its answer, normalised.                                                 *)
FailureIsolation == []BuildPlaylistSurvivesFailures /\ [][LookupStepIsIsolated]_vars

\* a finished request in which a genre lookup failed, its sibling brought
\* tracks, and the later groups were still looked up
SiblingSurvivedFailure ==
    /\ pc = "done"
    /\ res.status = 200
    /\ Len(calls["genre"]) = 2
    /\ calls["genre"][1].status = "failed"
    /\ calls["genre"][2].status = "ok"
    /\ \E t \in Range(allTracks) : t.source = [kind |-> "genre", tag |-> calls["genre"][2].tag]
    /\ calls["artist"] # <<>>
    /\ \E i \in 1..Len(calls["era"]) : calls["era"][i].status = "ok"

(* C5: Tag Inference returned a tag set and every lookup failed: the       *)
(* response is a success carrying the tag set and an empty playlist.       *)
AllLookupsFailedIsSuccess ==
    (pc = "done" /\ tags.kind = "object" /\ EveryLookupFailed) =>
        /\ res.status = 200
        /\ res.tags = tags
        /\ res.playlist = <<>>
        /\ res.error = EmptyString

\* lookups of all three groups were issued and every one failed
ServiceWasUnreachable ==
    /\ pc = "done"
    /\ tags.kind = "object"
    /\ \A g \in GroupSet : calls[g] # <<>>
    /\ EveryLookupFailed
    /\ res.status = 200

TagSetHasExactSizes ==
    tags.kind = "object" =>
        /\ tags.eraTags.defined /\ Len(tags.eraTags.items) = 2
        /\ tags.culturalTags.defined /\ Len(tags.culturalTags.items) = 8
        /\ tags.artists.defined /\ Len(tags.artists.items) = 20

(* C8 as stated: every failure is answered 500 with the error's message    *)
(* text, without retry and without any lookup.                             *)
FailureAnswersErrorMessage ==
    /\ geminiCalls <= 1
    /\ err # NoError =>
          /\ pc = "done"
          /\ res.status = 500
          /\ res.error = err.message
          /\ ~SomeLookup
    /\ res.status = 500 => err # NoError

(* C8 as amended: every failure is answered 500, without retry and without *)
(* any lookup, with the error's message text when it has one and with      *)
(* "Something went wrong." when its message is empty or missing.           *)
FailureAnswersMessageOrFallback ==
    /\ geminiCalls <= 1
    /\ err # NoError =>
          /\ pc = "done"
          /\ res.status = 500
          /\ res.error = IF err.message \in {EmptyString, Undefined}
                         THEN "Something went wrong."
                         ELSE err.message
          /\ res.tags = NoTags /\ res.playlist = <<>>
          /\ geminiCalls = 1
          /\ ~SomeLookup
    /\ res.status = 500 => err # NoError

\* the model's output did not parse and the handler answered with the parser's message
ParseFailureAnswered ==
    /\ err.kind = "SyntaxError"
    /\ res.status = 500
    /\ res.error = err.message
    /\ geminiCalls = 1

(* C9: the groups run in the order genre, artist, era: no lookup of a      *)
(* group is issued before every lookup of the groups before it has         *)
(* settled; a group's lookups (at most 8, 20 and 2) are issued together;   *)
(* deduplication starts only after every lookup has settled.               *)
GroupsRunInOrder ==
    /\ calls["artist"] # <<>> => AllSettled("genre")
    /\ calls["era"] # <<>> => AllSettled("genre") /\ AllSettled("artist")
    /\ pc \in {"artist", "era"} => AllSettled("genre")
    /\ pc = "era" => AllSettled("artist")
    /\ pc = "genre" => calls["artist"] = <<>> /\ calls["era"] = <<>>
    /\ pc = "artist" => calls["era"] = <<>>
    /\ \A g \in GroupSet : Len(calls[g]) <= GroupLimit(g)
    /\ \A g \in GroupSet : pc = g => Len(calls[g]) = Due(g)
    /\ (pc = "shuffle" \/ res.status = 200 \/ unique # <<>>) =>
          \A g \in GroupSet : AllSettled(g) /\ Len(calls[g]) = Due(g)

\* tag arrays longer than the limits: 8, 20 and 2 lookups were issued and settled
LongArraysWereCut ==
    /\ pc = "shuffle"
    /\ Len(tags.culturalTags.items) = 9 /\ Len(calls["genre"]) = 8
    /\ Len(tags.artists.items) = 21 /\ Len(calls["artist"]) = 20
    /\ Len(tags.eraTags.items) = 3 /\ Len(calls["era"]) = 2

(* C10: a playlist track whose pair a genre lookup contributed has a genre *)
(* source; one whose pair an artist lookup but no genre lookup contributed *)
(* has an artist source; an era source only for pairs of era lookups alone. *)
ProvenancePriority ==
    res.status = 200 =>
        LET byGenre == PairsOf("genre")
            byArtist == PairsOf("artist")
        IN \A i \in 1..Len(res.playlist) :
              LET t == res.playlist[i]
                  pair == LowerPair(t)
              IN /\ pair \in byGenre => t.source.kind = "genre"
                 /\ (pair \in byArtist /\ pair \notin byGenre) => t.source.kind = "artist"
                 /\ t.source.kind = "era" => (pair \notin byGenre /\ pair \notin byArtist)

\* a playlist track whose pair was also contributed by a later group
EarlierGroupWon ==
    /\ res.status = 200
    /\ \E i \in 1..Len(res.playlist) :
          LET t == res.playlist[i] IN
          \/ t.source.kind = "genre" /\ LowerPair(t) \in PairsOf("artist")
          \/ t.source.kind = "artist" /\ LowerPair(t) \in PairsOf("era")

============================================================================
